---- MODULE Spec2Model ----
\* Sitemap inspector (src/main.py): document fetcher, sitemap parsers and the
\* sitemap-index fan-out over a pool of five worker threads.
EXTENDS Integers, Sequences, FiniteSets, Bags, TLC

\* ------------------------------------------------------------------ bounds
MaxChildren == 3       \* longest child list of the fan-out specification
PoolChildren == 6      \* child list length of the worker-pool specification
MaxIsoChildren == 3    \* longest child list of the isolation specification
MaxSitemapElems == 3   \* longest list of <sitemap> elements of an index document
MaxEntries == 2        \* longest list of <url> elements of a leaf document
MaxDates == 2          \* longest list of dates given to analyze_dates

\* ------------------------------------------------------- program constants
max_workers == 5            \* ThreadPoolExecutor(max_workers=5)
MaxDownload == 52428800     \* 50 * 1024 * 1024 bytes

\* --------------------------------------------------------------- strings
\* A text is a sequence of characters; an element that is absent is NoElem.
NoElem == [found |-> FALSE]
Elem(t) == [found |-> TRUE, text |-> t]

RECURSIVE LStrip(_)
LStrip(s) == IF s # <<>> /\ Head(s) = " " THEN LStrip(Tail(s)) ELSE s

RECURSIVE RStrip(_)
RStrip(s) ==
    IF s # <<>> /\ s[Len(s)] = " " THEN RStrip(SubSeq(s, 1, Len(s) - 1)) ELSE s

\* str.strip()
Strip(s) == RStrip(LStrip(s))

\* 'T' in date_str or ' ' in date_str or ':' in date_str
HasTimeChars(s) == \E i \in 1..Len(s) : s[i] \in {"T", " ", ":"}

\* ---------------------------------------------------------------- dates
\* Date texts are built from the tokens: a calendar day ("d1", "d2"), the
\* separators "T", " " and ":", an hour ("h0", "h9"), minutes ("mm"), a zone
\* ("Z", "+2") and junk ("x").  A timestamp is [day, hour, aware, off]: aware
\* tells whether it carries a zone, off is the zone's offset in hours.
Days == {"d1", "d2"}
Hours == {"h0", "h9"}
Zones == {"Z", "+2"}
DayOf(t) == IF t = "d1" THEN 1 ELSE 2
HourOf(t) == IF t = "h0" THEN 0 ELSE 9
ZoneOf(t) == IF t = "Z" THEN 0 ELSE 2

\* dateutil.parser.parse on the token texts of the model: a day, optionally
\* followed by a time of day and a zone; anything else raises ParserError.
ParseFail == [ok |-> FALSE]
DateParseTokens(s) ==
    IF Len(s) = 1 /\ s[1] \in Days
      THEN [ok |-> TRUE, day |-> DayOf(s[1]), hour |-> 0, aware |-> FALSE, off |-> 0]
    ELSE IF Len(s) \in {5, 6} /\ s[1] \in Days /\ s[2] \in {"T", " "}
            /\ s[3] \in Hours /\ s[4] = ":" /\ s[5] = "mm"
            /\ (Len(s) = 6 => s[6] \in Zones)
      THEN [ok |-> TRUE, day |-> DayOf(s[1]), hour |-> HourOf(s[3]),
            aware |-> Len(s) = 6,
            off |-> IF Len(s) = 6 THEN ZoneOf(s[6]) ELSE 0]
    ELSE ParseFail

\* The parser skips blanks around the text.
DateParse(s) == DateParseTokens(Strip(s))

\* pytz.UTC.localize(last_mod_date) when tzinfo is None
Localize(d) ==
    [day |-> d.day, hour |-> d.hour, aware |-> TRUE,
     off |-> IF d.aware THEN d.off ELSE 0]

\* -------------------------------------------------------- analyze_dates
\* Instants are counted in hours: the instant of a timestamp is its wall
\* clock less its zone offset.
Instant(d) == (d.day * 24 + d.hour) - d.off

\* date.astimezone(pytz.UTC): the same instant on the UTC wall clock
AsUtc(d) ==
    IF d.off = 0 THEN d
    ELSE [day |-> Instant(d) \div 24, hour |-> Instant(d) % 24,
          aware |-> TRUE, off |-> 0]

StatKeys == {"24h", "week", "month", "year"}
NoStats == [k \in StatKeys |-> 0]

\* timedelta(days=1), (days=7), (days=30), (days=365)
WindowDays(k) ==
    CASE k = "24h" -> 1 [] k = "week" -> 7 [] k = "month" -> 30 [] k = "year" -> 365

\* last_24h, last_week, last_month, last_year
WindowStart(k, now) == now - WindowDays(k) * 24

\* A loop body that counts a date in the narrowest window holding it only.
AnalyzeDateExclusive(st, date, now) ==
    LET hit == {k \in StatKeys : Instant(AsUtc(date)) >= WindowStart(k, now)}
    IN  [k \in StatKeys |->
            IF k \in hit /\ \A j \in hit : WindowDays(k) <= WindowDays(j)
              THEN st[k] + 1 ELSE st[k]]

\* The body of `for date in dates`: four independent tests.
AnalyzeDate(st, date, now) ==
    [k \in StatKeys |->
        IF Instant(AsUtc(date)) >= WindowStart(k, now) THEN st[k] + 1 ELSE st[k]]

RECURSIVE CountDates(_, _, _)
CountDates(st, dates, now) ==
    IF dates = <<>> THEN st
    ELSE CountDates(AnalyzeDate(st, Head(dates), now), Tail(dates), now)

\* analyze_dates(dates) when datetime.now(pytz.UTC) reads `now`
AnalyzeDates(dates, now) ==
    IF dates = <<>> THEN NoStats ELSE CountDates(NoStats, dates, now)

\* default_refresh_month = 0, default_refresh_annual = 0
NoRefresh == [month |-> 0, annual |-> 0]

\* What datetime.now reads when the simulator runs: the afternoon of day 2
\* or day 40.
ClockChoices == {2 * 24 + 12, 40 * 24}

\* ------------------------------------------------------------ documents
\* An element name is <<prefix, local name>>.  A <url> entry is
\* [loc, lastmod, children]: the text of its <loc> and <lastmod> (or NoElem)
\* and the names of its other child elements.
\* A document is [kind, wf, soup, entries]: kind "urlset" or "sitemapindex",
\* wf whether the text is well-formed XML, soup what BeautifulSoup(text, 'xml')
\* does with it ("tree": a tree is built, for a malformed text the recovered
\* part; "rejected": the tree builder raises), entries the <url> (urlset) or
\* <sitemap> (sitemapindex) elements of that tree.
TagCategories == {"standard", "image", "video", "news", "language", "mobile"}
EmptyTags == [c \in TagCategories |-> {}]

AddTag(tags, cat, name) == [tags EXCEPT ![cat] = @ \cup {name}]

Suffixes(children, prefix) == {c[2] : c \in {x \in children : x[1] = prefix}}

\* lines 448-482 of parse_sitemap: the tag inventory of one entry
EntryTags(tags, e) ==
    LET t1 == IF <<"", "changefreq">> \in e.children
                THEN AddTag(tags, "standard", "changefreq") ELSE tags
        t2 == IF <<"", "priority">> \in e.children
                THEN AddTag(t1, "standard", "priority") ELSE t1
        t3 == [t2 EXCEPT !["image"] = @ \cup Suffixes(e.children, "image"),
                         !["video"] = @ \cup Suffixes(e.children, "video"),
                         !["news"] = @ \cup Suffixes(e.children, "news")]
        t4 == IF <<"xhtml", "link">> \in e.children
                THEN AddTag(t3, "language", "alternate") ELSE t3
    IN  IF <<"mobile", "mobile">> \in e.children
          THEN AddTag(t4, "mobile", "mobile") ELSE t4

\* The accumulators of parse_sitemap before the loop.
ParseAcc0 ==
    [urls |-> {}, dates |-> <<>>, tags |-> EmptyTags, has_time_info |-> FALSE]

\* A loop iteration that adds the text of <loc> as it stands, blanks included.
ParseUrlEntryUntrimmed(acc, e) ==
    LET a1 == IF e.loc.found /\ Strip(e.loc.text) # <<>>
                THEN [acc EXCEPT !.urls = @ \cup {e.loc.text}] ELSE acc
    IN  IF ~e.lastmod.found
          THEN [a1 EXCEPT !.tags = EntryTags(@, e)]
        ELSE
          LET d == DateParse(Strip(e.lastmod.text))
          IN  IF ~d.ok
                THEN a1
                ELSE [a1 EXCEPT !.dates = Append(@, Localize(d)),
                                !.tags = EntryTags(@, e)]

\* One iteration of the loop `for url in urls` of parse_sitemap.  A lastmod
\* that fails to parse raises inside the try block and the bare except
\* executes `continue`, which ends the iteration before the tag inventory.
ParseUrlEntry(acc, e) ==
    LET a1 == IF e.loc.found /\ Strip(e.loc.text) # <<>>
                THEN [acc EXCEPT !.urls = @ \cup {Strip(e.loc.text)}] ELSE acc
    IN  IF ~e.lastmod.found
          THEN [a1 EXCEPT !.tags = EntryTags(@, e)]
        ELSE
          LET date_str == Strip(e.lastmod.text)
              a2 == IF HasTimeChars(date_str)
                      THEN [a1 EXCEPT !.has_time_info = TRUE] ELSE a1
              d == DateParse(date_str)
          IN  IF ~d.ok
                THEN a2
                ELSE [a2 EXCEPT !.dates = Append(@, Localize(d)),
                                !.tags = EntryTags(@, e)]

RECURSIVE ParseEntries(_, _)
ParseEntries(acc, es) ==
    IF es = <<>> THEN acc ELSE ParseEntries(ParseUrlEntry(acc, Head(es)), Tail(es))

\* The <url> elements find_all('url') returns: none in a sitemap index.
UrlElements(doc) == IF doc.kind = "urlset" THEN doc.entries ELSE <<>>

\* parse_sitemap(xml_content) for a non-empty text: the returned tuple, or
\* [raised |-> TRUE] when BeautifulSoup raises.
ParseSitemap(doc) ==
    IF doc.soup = "rejected"
      THEN [raised |-> TRUE]
      ELSE LET r == ParseEntries(ParseAcc0, UrlElements(doc))
           IN  [raised |-> FALSE, urls |-> r.urls, dates |-> r.dates,
                tags_info |-> r.tags, has_time_info |-> r.has_time_info]

\* ---------------------------------------------------------------- fetch
\* What the network answers for one URL, [net, status, ctype, clen, size,
\* read, gz, utf8, cdata, doc]:
\*   net     "ok", or "timeout": session.get(url) raises
\*   status  the HTTP status
\*   ctype   the Content-Type header: "absent", "xml" (allowed) or "html"
\*   clen    the Content-Length header: absent, a number, or not a number
\*   size    the number of bytes the body delivers
\*   read    "ok", or "timeout": the body stream raises before its end
\*   gz      "plain", or gzip magic bytes with a stream that decompresses
\*           ("gzip_ok") or not ("gzip_bad")
\*   utf8    whether the bytes that get decoded are valid UTF-8
\*   cdata   whether the first 5000 characters contain CDATA
\*   doc     the document the decoded text holds
Msg(sev, text) == [sev |-> sev, text |-> text]

NoHeader == [present |-> FALSE]
NumHeader(n) == [present |-> TRUE, numeric |-> TRUE, value |-> n]
BadHeader == [present |-> TRUE, numeric |-> FALSE]

\* The state of one call of fetch_xml: pc the next block to run, messages the
\* local list, done/xml/ret the returned pair once it has returned.
FetchStart == [pc |-> "get", messages |-> <<>>, xml |-> FALSE, ret |-> <<>>]

\* except ValueError / except Exception (lines 378-381): the returned list
\* holds the error alone.
FetchRaise(fs, text) ==
    [fs EXCEPT !.pc = "done", !.xml = FALSE, !.ret = <<Msg("error", text)>>]

\* session.get(url, ...) and response.raise_for_status()
FetchGet(fs, r) ==
    IF r.net # "ok" \/ r.status >= 400
      THEN FetchRaise(fs, "recuperation")
      ELSE [fs EXCEPT !.pc = "headers"]

\* The Content-Length check: int() of a header that is no number raises
\* ValueError, and so does the size test; both land in the inner except.
ContentLengthWarns(clen) ==
    clen.present /\ (~clen.numeric \/ clen.value > MaxDownload)

\* lines 320-338
FetchHeaders(fs, r) ==
    LET m1 == Append(fs.messages, Msg("info", "headers"))
        m2 == IF r.ctype = "html" THEN Append(m1, Msg("warning", "content-type"))
              ELSE m1
        m3 == IF ContentLengthWarns(r.clen)
                THEN Append(m2, Msg("warning", "content-length")) ELSE m2
    IN  [fs EXCEPT !.pc = "body", !.messages = m3]

\* lines 341-348: the chunk loop
FetchBody(fs, r) ==
    IF r.read # "ok" THEN FetchRaise(fs, "recuperation")
    ELSE IF r.size > MaxDownload THEN FetchRaise(fs, "securite")
    ELSE [fs EXCEPT !.pc = "gzip"]

\* lines 351-360
FetchGzip(fs, r) ==
    LET m1 == IF r.gz # "plain" THEN Append(fs.messages, Msg("info", "gz"))
              ELSE fs.messages
        m2 == IF r.gz = "gzip_bad" THEN Append(m1, Msg("warning", "gunzip"))
              ELSE m1
    IN  [fs EXCEPT !.pc = "decode", !.messages = m2]

Encodings == <<"utf-8", "utf-8-sig", "latin1", "iso-8859-1">>

\* content.decode(encoding) succeeds: latin1 maps every byte.
Decodes(r, enc) == IF enc \in {"utf-8", "utf-8-sig"} THEN r.utf8 ELSE TRUE

\* lines 363-376
FetchDecode(fs, r) ==
    IF \E k \in 1..Len(Encodings) : Decodes(r, Encodings[k])
      THEN LET m1 == Append(fs.messages, Msg("info", "charge"))
               m2 == IF r.cdata THEN Append(m1, Msg("info", "cdata")) ELSE m1
           IN  [fs EXCEPT !.pc = "done", !.xml = TRUE, !.messages = m2, !.ret = m2]
      ELSE LET m1 == Append(fs.messages, Msg("error", "decodage"))
           IN  [fs EXCEPT !.pc = "done", !.xml = FALSE, !.messages = m1, !.ret = m1]

FetchStep(fs, r) ==
    CASE fs.pc = "get" -> FetchGet(fs, r)
      [] fs.pc = "headers" -> FetchHeaders(fs, r)
      [] fs.pc = "body" -> FetchBody(fs, r)
      [] fs.pc = "gzip" -> FetchGzip(fs, r)
      [] fs.pc = "decode" -> FetchDecode(fs, r)
      [] OTHER -> fs

RECURSIVE FetchRun(_, _)
FetchRun(fs, r) == IF fs.pc = "done" THEN fs ELSE FetchRun(FetchStep(fs, r), r)

\* fetch_xml(url): the returned pair (xml_content, messages); xml_content is
\* None (some |-> FALSE) or the decoded text, empty when the body is.
FetchXml(r) ==
    LET fs == FetchRun(FetchStart, r)
    IN  [some |-> fs.xml, empty |-> r.size = 0, messages |-> fs.ret]

\* fetch_and_parse_sitemap: what the call ends with, [raised, value]: value is
\* the dict it returns.  `if xml_content` is false for None and for the empty
\* text; the except clause turns an exception of parse_sitemap into a dict.
OutcomeOf(url, fx, doc) ==
    IF fx.some /\ ~fx.empty
      THEN LET p == ParseSitemap(doc)
           IN  IF p.raised
                 THEN [raised |-> FALSE,
                       value |-> [url |-> url, success |-> FALSE,
                                  error |-> "exception", messages |-> <<>>]]
                 ELSE [raised |-> FALSE,
                       value |-> [url |-> url, success |-> TRUE, urls |-> p.urls,
                                  dates |-> p.dates, tags_info |-> p.tags_info,
                                  has_time_info |-> p.has_time_info,
                                  messages |-> fx.messages]]
      ELSE [raised |-> FALSE,
            value |-> [url |-> url, success |-> FALSE,
                       error |-> "Failed to fetch XML content",
                       messages |-> fx.messages]]

\* Mutant: fetch_and_parse_sitemap without its try/except, so that what
\* parse_sitemap raises leaves the task.
FetchAndParseNoCatch(url, r) ==
    LET o == OutcomeOf(url, FetchXml(r), r.doc)
    IN  IF ~o.value.success /\ o.value.error = "exception"
          THEN [raised |-> TRUE, value |-> o.value] ELSE o

FetchAndParseSitemap(url, r) == OutcomeOf(url, FetchXml(r), r.doc)

\* ------------------------------------------------------------- the network
\* Texts of the model.
P1 == <<"p", "1">>
P2 == <<"p", "2">>
Entry(loc, lastmod, children) ==
    [loc |-> loc, lastmod |-> lastmod, children |-> children]
Doc(kind, wf, soup, entries) ==
    [kind |-> kind, wf |-> wf, soup |-> soup, entries |-> entries]

\* A response that arrives whole: status 200, an allowed content type, a body
\* within the limit, plain UTF-8.
Served(doc) ==
    [net |-> "ok", status |-> 200, ctype |-> "xml", clen |-> NoHeader,
     size |-> 2048, read |-> "ok", gz |-> "plain", utf8 |-> TRUE,
     cdata |-> FALSE, doc |-> doc]

LeafA == Doc("urlset", TRUE, "tree",
             <<Entry(Elem(P1), Elem(<<"d1">>), {<<"", "priority">>})>>)
LeafB == Doc("urlset", TRUE, "tree",
             <<Entry(Elem(P1), Elem(<<"d2", "T", "h9", ":", "mm", "Z">>), {}),
               Entry(Elem(<<" ">> \o P2 \o <<" ">>), NoElem, {<<"image", "loc">>})>>)
HtmlPage == Doc("none", FALSE, "tree", <<>>)
Rejected == Doc("none", FALSE, "rejected", <<>>)
ChildIndex == Doc("sitemapindex", TRUE, "tree",
                  <<Entry(Elem(<<"u", "1">>), NoElem, {})>>)

\* The sitemap URLs of the model and what the network answers for each.
AllURLs == <<"a.xml", "gone.xml", "b.xml", "big.xml", "page.xml", "index.xml",
             "broken.xml">>
URLSet == {AllURLs[k] : k \in 1..Len(AllURLs)}
ChildURLs == {"a.xml", "b.xml", "big.xml", "page.xml"}
IsoURLs == {"a.xml", "b.xml"}
Network ==
    [u \in URLSet |->
       CASE u = "a.xml" -> Served(LeafA)
         [] u = "b.xml" -> [Served(LeafB) EXCEPT !.cdata = TRUE]
         [] u = "gone.xml" -> [Served(HtmlPage) EXCEPT !.status = 404]
         [] u = "big.xml" ->
              [Served(LeafA) EXCEPT !.size = MaxDownload + 1, !.ctype = "html"]
         [] u = "page.xml" -> [Served(HtmlPage) EXCEPT !.ctype = "html"]
         [] u = "index.xml" -> Served(ChildIndex)
         [] u = "broken.xml" -> Served(Rejected)]

\* The ways a child that was served can come to fail.
FailingResponses ==
    {Network["gone.xml"], Network["big.xml"], Network["broken.xml"],
     [Served(LeafA) EXCEPT !.read = "timeout"]}

\* ---------------------------------------------------------------- state
VARIABLES
    sitemaps,           \* the child URLs parse_sitemap_index returned, in order
    net,                \* what the network answers for the i-th child
    fstate,             \* per future: "none", "pending", "running", "finished"
    fresult,            \* per finished future: what its task ended with
    requests,           \* per future: the addresses its task has requested
    finish_order,       \* the futures whose task has ended and which the loop
                        \*   has not taken yet, in the order the tasks ended
    mpc,                \* where the main thread is
    early,              \* as_completed: the futures found finished at its call
    waiterq,            \* as_completed: the waiter's finished_futures, oldest first
    yielded,            \* as_completed: the futures already handed to the loop
    collected,          \* the future of each element of results
    results,            \* results
    all_urls,           \* all_urls
    all_dates,          \* all_dates
    any_has_time_info,  \* any_has_time_info
    shown_global,       \* what display_sitemap_stats was given for the global view
    shown_each,         \* the titles of the per-sitemap expanders, in order
    default_urls,       \* the cost simulator's default number of URLs
    default_refresh,    \*   and its default_refresh_month, default_refresh_annual
    pass,               \* "only", or "baseline" then "faulted": the script run
    victim,             \* the child the network fails in the faulted run, or 0
    baseline,           \* per child, its outcome in the baseline run
    f_resp,             \* one call of fetch_and_parse_sitemap: the answer
    fs,                 \*   the state of its fetch_xml call
    f_pc,               \*   "fetching" or "returned"
    f_out,              \*   what it ended with
    ix_elems,           \* one call of parse_sitemap_index: the <sitemap> elements
    ix_pos,             \*   the number of elements the loop has dealt with
    ix_pc,              \*   "loop", "returned" or "raised"
    sitemap_data,       \*   sitemap_data
    p_entries,          \* one call of parse_sitemap: the <url> elements found
    p_pos,              \*   the number of elements the loop has dealt with
    p_pc,               \*   "loop" or "returned"
    p_acc,              \*   unique_urls, last_mod_dates, tags_info, has_time_info
    d_dates,            \* one call of analyze_dates: its argument
    d_now,              \*   now, in hours
    d_pos,              \*   the number of dates the loop has dealt with
    d_pc,               \*   "start", "loop" or "returned"
    stats               \*   stats

aggVars == <<all_urls, all_dates, any_has_time_info>>
poolVars == <<fstate, fresult, requests, finish_order>>
loopVars == <<early, waiterq, yielded, collected, results>>
uiVars == <<shown_global, shown_each, default_urls, default_refresh>>
runVars == <<pass, victim, baseline>>
fanVars == <<sitemaps, net, mpc, poolVars, loopVars, aggVars, uiVars, runVars>>
fetchVars == <<f_resp, fs, f_pc, f_out>>
indexVars == <<ix_elems, ix_pos, ix_pc, sitemap_data>>
parseVars == <<p_entries, p_pos, p_pc, p_acc>>
datesVars == <<d_dates, d_now, d_pos, d_pc, stats>>
restVars == <<runVars, fetchVars, indexVars, parseVars, datesVars>>
vars == <<fanVars, fetchVars, indexVars, parseVars, datesVars>>

DefaultUrls == 3800

\* ------------------------------------------------------- sequence helpers
RECURSIVE SeqsUpTo(_, _)
SeqsUpTo(S, n) ==
    IF n = 0 THEN {<<>>}
    ELSE LET shorter == SeqsUpTo(S, n - 1)
         IN  shorter \cup {Append(q, e) : q \in {t \in shorter : Len(t) = n - 1}, e \in S}

Min(S) == CHOOSE m \in S : \A o \in S : m <= o

\* --------------------------------------------------------------- fan-out
\* Mutant: one future per distinct URL, as a dict keyed by the URL keeps.
FutureIdsByUrl(sm) == {i \in 1..Len(sm) : \A j \in 1..(i - 1) : sm[j] # sm[i]}

\* One future per element of sitemaps: the dict comprehension of lines
\* 715-716 is keyed by the future submit() returns, not by the URL.
FutureIds(sm) == 1..Len(sm)

Futures == FutureIds(sitemaps)
InState(st) == {i \in Futures : fstate[i] = st}

NoOutcome == [raised |-> FALSE, value |-> <<>>]

\* No call of fetch_and_parse_sitemap outside the pool, no index being parsed.
IdleFetch ==
    /\ f_resp = Network["a.xml"]
    /\ fs = [FetchStart EXCEPT !.pc = "idle"]
    /\ f_pc = "idle"
    /\ f_out = NoOutcome

IdleIndex ==
    /\ ix_elems = <<>>
    /\ ix_pos = 0
    /\ ix_pc = "idle"
    /\ sitemap_data = <<>>

\* No leaf document being parsed, no dates being analysed.
IdleParse ==
    /\ p_entries = <<>>
    /\ p_pos = 0
    /\ p_pc = "idle"
    /\ p_acc = ParseAcc0

IdleDates ==
    /\ d_dates = <<>>
    /\ d_now = 0
    /\ d_pos = 0
    /\ d_pc = "idle"
    /\ stats = NoStats

\* The state at line 714, the accumulators of lines 710-712 being empty.
InitFanOut(sm) ==
    /\ sitemaps = sm
    /\ net = [i \in 1..Len(sm) |-> Network[sm[i]]]
    /\ victim = 0
    /\ baseline = <<>>
    /\ IdleFetch
    /\ IdleIndex
    /\ IdleParse
    /\ IdleDates
    /\ fstate = [i \in 1..Len(sm) |-> "none"]
    /\ fresult = [i \in 1..Len(sm) |-> NoOutcome]
    /\ requests = [i \in 1..Len(sm) |-> <<>>]
    /\ finish_order = <<>>
    /\ mpc = "submit"
    /\ early = {}
    /\ waiterq = <<>>
    /\ yielded = {}
    /\ collected = <<>>
    /\ results = <<>>
    /\ all_urls = {}
    /\ all_dates = <<>>
    /\ any_has_time_info = FALSE
    /\ shown_global = <<>>
    /\ shown_each = <<>>
    /\ default_urls = DefaultUrls
    /\ default_refresh = NoRefresh

Init ==
    /\ pass = "only"
    /\ \E sm \in SeqsUpTo(ChildURLs, MaxChildren) : InitFanOut(sm)

\* executor.submit(fetch_and_parse_sitemap, sitemap['url']), in list order
Submit ==
    /\ mpc = "submit"
    /\ InState("none") # {}
    /\ fstate' = [fstate EXCEPT ![Min(InState("none"))] = "pending"]
    /\ UNCHANGED <<sitemaps, net, mpc, fresult, requests, finish_order, loopVars,
                   aggVars, uiVars, restVars>>

\* Mutant: a pool thread is not given back when its task has ended.
WorkerNeverReleased ==
    Cardinality(InState("running") \cup InState("finished")) < max_workers

\* Mutant: a thread per work item.
WorkerAlwaysFree == TRUE

\* A pool thread may take a work item: the pool never runs more than
\* max_workers threads, each running one item at a time.
WorkerFree == Cardinality(InState("running")) < max_workers

\* A pool thread takes the oldest item of the work queue.
StartTask ==
    /\ InState("pending") # {}
    /\ WorkerFree
    /\ fstate' = [fstate EXCEPT ![Min(InState("pending"))] = "running"]
    /\ UNCHANGED <<sitemaps, net, mpc, fresult, requests, finish_order, loopVars,
                   aggVars, uiVars, restVars>>

\* A task that asks again for a document it failed to get.
TaskRequestsRetry(url, r) ==
    IF FetchXml(r).some
      THEN <<[kind |-> "home", url |-> url], [kind |-> "document", url |-> url]>>
      ELSE <<[kind |-> "home", url |-> url], [kind |-> "document", url |-> url],
             [kind |-> "document", url |-> url]>>

\* The requests one call of fetch_xml(url) sends, whatever the answers: the
\* home page of the site of url (line 311), then the document at url (line
\* 316).
TaskRequests(url, r) ==
    <<[kind |-> "home", url |-> url], [kind |-> "document", url |-> url]>>

\* What the task of future i ends with.
RunTask(i) == FetchAndParseSitemap(sitemaps[i], net[i])

Acc == [all_urls |-> all_urls, all_dates |-> all_dates,
        any_has_time_info |-> any_has_time_info]

\* A task that adds the URLs it found to all_urls itself.
TaskMergesOwnUrls(acc, r) ==
    IF ~r.raised /\ r.value.success
      THEN [acc EXCEPT !.all_urls = @ \cup r.value.urls]
      ELSE acc

\* The accumulators after a task that ends with r: fetch_and_parse_sitemap
\* assigns its own locals only and hands its findings over in the dict it
\* returns.
TaskAccumulators(acc, r) == acc

\* The task of future i returns; a waiter installed by as_completed is told.
FinishTask(i) ==
    /\ fstate[i] = "running"
    /\ fstate' = [fstate EXCEPT ![i] = "finished"]
    /\ fresult' = [fresult EXCEPT ![i] = RunTask(i)]
    /\ requests' = [requests EXCEPT ![i] = TaskRequests(sitemaps[i], net[i])]
    /\ finish_order' = Append(finish_order, i)
    /\ waiterq' = IF mpc = "collect" THEN Append(waiterq, i) ELSE waiterq
    /\ LET a == TaskAccumulators(Acc, RunTask(i))
       IN  /\ all_urls' = a.all_urls
           /\ all_dates' = a.all_dates
           /\ any_has_time_info' = a.any_has_time_info
    /\ UNCHANGED <<sitemaps, net, mpc, early, yielded, collected, results,
                   uiVars, restVars>>

\* Mutant: the loop starts on a lazily built collection of futures.
SomeSubmitted == InState("none") # Futures

\* The dict comprehension of lines 715-716 has submitted every child.
AllSubmitted == InState("none") = {}

\* Line 719: as_completed(future_to_url) is called once every child has been
\* submitted; it notes the futures that have finished already.
AsCompleted ==
    /\ mpc = "submit"
    /\ AllSubmitted
    /\ early' = InState("finished")
    /\ mpc' = "collect"
    /\ UNCHANGED <<sitemaps, net, poolVars, waiterq, yielded, collected, results,
                   aggVars, uiVars, restVars>>

\* as_completed handing out the waiter's list from its newest entry.
YieldableNewestFirst ==
    IF early \ yielded # {} THEN early \ yielded
    ELSE IF waiterq # <<>> THEN {waiterq[Len(waiterq)]}
    ELSE {}

\* The futures as_completed can yield next: those finished at its call in
\* any order, then the others in the order they finished.
Yieldable ==
    IF early \ yielded # {} THEN early \ yielded
    ELSE IF waiterq # <<>> THEN {Head(waiterq)}
    ELSE {}

\* Mutant: a date all_dates holds already is not added again.
MergeDistinctDates(acc, result) ==
    IF result.success
      THEN [all_urls |-> acc.all_urls \cup result.urls,
            all_dates |-> acc.all_dates \o
                SelectSeq(result.dates,
                          LAMBDA d : \A k \in 1..Len(acc.all_dates) :
                                        acc.all_dates[k] # d),
            any_has_time_info |-> acc.any_has_time_info \/ result.has_time_info]
      ELSE acc

\* Mutant: the flag is assigned, not or-ed.
MergeLastFlag(acc, result) ==
    IF result.success
      THEN [all_urls |-> acc.all_urls \cup result.urls,
            all_dates |-> acc.all_dates \o result.dates,
            any_has_time_info |-> result.has_time_info]
      ELSE acc

\* Mutant: all_urls is assigned, not updated.
MergeReplace(acc, result) ==
    IF result.success
      THEN [all_urls |-> result.urls,
            all_dates |-> acc.all_dates \o result.dates,
            any_has_time_info |-> acc.any_has_time_info \/ result.has_time_info]
      ELSE acc

\* Lines 722-728: the merge of one result into the accumulators
\* [all_urls, all_dates, any_has_time_info].
Merge(acc, result) ==
    IF result.success
      THEN [all_urls |-> IF result.urls # {} THEN acc.all_urls \cup result.urls
                         ELSE acc.all_urls,
            all_dates |-> IF result.dates # <<>> THEN acc.all_dates \o result.dates
                          ELSE acc.all_dates,
            any_has_time_info |-> IF result.has_time_info THEN TRUE
                                  ELSE acc.any_has_time_info]
      ELSE acc

\* The sequence q without the element i.
Without(q, i) == SelectSeq(q, LAMBDA j : j # i)

\* One iteration of the loop of lines 719-728.  future.result() raises what
\* the task raised, which ends the script.
Collect(i) ==
    /\ mpc = "collect"
    /\ i \in Yieldable
    /\ yielded' = yielded \cup {i}
    /\ waiterq' = Without(waiterq, i)
    /\ IF fresult[i].raised
         THEN /\ mpc' = "crashed"
              /\ UNCHANGED <<collected, results, aggVars>>
         ELSE /\ mpc' = mpc
              /\ collected' = Append(collected, i)
              /\ results' = Append(results, fresult[i].value)
              /\ LET m == Merge(Acc, fresult[i].value)
                 IN  /\ all_urls' = m.all_urls
                     /\ all_dates' = m.all_dates
                     /\ any_has_time_info' = m.any_has_time_info
    /\ finish_order' = Without(finish_order, i)
    /\ UNCHANGED <<sitemaps, net, fstate, fresult, requests, early, uiVars,
                   restVars>>

\* Mutant: the loop ends with the first future that completed.
LoopDoneFirst == yielded # {}

\* as_completed is exhausted: every future has been yielded.
LoopDone == yielded = Futures

\* The loop ends and the with block shuts the executor down, which waits
\* for every work item.
Shutdown ==
    /\ mpc = "collect"
    /\ LoopDone
    /\ InState("pending") \cup InState("running") = {}
    /\ mpc' = "display"
    /\ UNCHANGED <<sitemaps, net, poolVars, loopVars, aggVars, uiVars, restVars>>

\* Line 731: the global statistics.
DisplayGlobal ==
    /\ mpc = "display"
    /\ shown_global' = <<Acc>>
    /\ mpc' = "each"
    /\ UNCHANGED <<sitemaps, net, poolVars, loopVars, aggVars, shown_each,
                   default_urls, default_refresh, restVars>>

\* Lines 736-741: the title of one expander.
Title(result) ==
    [url |-> result.url,
     label |-> IF result.success THEN "URLs" ELSE "Failed",
     count |-> IF result.success THEN Cardinality(result.urls) ELSE 0]

\* Lines 735-763: one iteration of the per-sitemap display.
DisplayEach ==
    /\ mpc = "each"
    /\ Len(shown_each) < Len(results)
    /\ shown_each' = Append(shown_each, Title(results[Len(shown_each) + 1]))
    /\ UNCHANGED <<sitemaps, net, mpc, poolVars, loopVars, aggVars, shown_global,
                   default_urls, default_refresh, restVars>>

\* Lines 789-800: the simulator's defaults, the clock reading some time
\* after the dates of the documents.
Simulator ==
    /\ mpc = "each"
    /\ Len(shown_each) = Len(results)
    /\ default_urls' = IF all_urls # {} THEN Cardinality(all_urls) ELSE DefaultUrls
    /\ \E now \in ClockChoices :
          default_refresh' =
              IF all_dates # <<>>
                THEN [month |-> AnalyzeDates(all_dates, now)["month"],
                      annual |-> AnalyzeDates(all_dates, now)["year"]]
                ELSE NoRefresh
    /\ mpc' = "done"
    /\ UNCHANGED <<sitemaps, net, poolVars, loopVars, aggVars, shown_global,
                   shown_each, restVars>>

Next ==
    \/ Submit
    \/ StartTask
    \/ \E i \in Futures : FinishTask(i)
    \/ AsCompleted
    \/ \E i \in Futures : Collect(i)
    \/ Shutdown
    \/ DisplayGlobal
    \/ DisplayEach
    \/ Simulator

Spec == Init /\ [][Next]_vars

\* ------------------------------------------------------- the worker pool
\* More children than the pool has threads.
PoolList == [i \in 1..PoolChildren |-> AllURLs[((i - 1) % Len(AllURLs)) + 1]]

InitPool ==
    /\ pass = "only"
    /\ InitFanOut(PoolList)

SpecPool == InitPool /\ [][Next]_vars

\* ------------------------------------------------------------ progress
\* One child more than the pool has threads.
LiveList == [i \in 1..(max_workers + 1) |-> AllURLs[i]]

InitLive ==
    /\ pass = "only"
    /\ InitFanOut(LiveList)

\* The steps of the script's own thread.
MainStep ==
    \/ Submit
    \/ AsCompleted
    \/ \E i \in Futures : Collect(i)
    \/ Shutdown
    \/ DisplayGlobal
    \/ DisplayEach
    \/ Simulator

\* The task of future i returns.
Returns(i) ==
    /\ i \in Futures
    /\ fstate[i] = "running"
    /\ fstate' = [fstate EXCEPT ![i] = "finished"]

\* The scheduling the aggregation relies on: the script's thread keeps
\* running, an idle pool thread takes the next work item, and every task
\* that has been started returns (session.get is called with a timeout).
Fairness ==
    /\ WF_vars(MainStep)
    /\ WF_vars(StartTask)
    /\ \A i \in 1..(max_workers + 1) : WF_fstate(Returns(i))

SpecLive == InitLive /\ [][Next]_vars /\ Fairness

\* ------------------------------------------------------------- two runs
\* Streamlit runs the script again on every interaction.  The isolation
\* specification runs the fan-out twice over the same child list: once with
\* every child served, once more with the network failing one child.
InitIso ==
    /\ pass = "baseline"
    /\ \E sm \in SeqsUpTo(IsoURLs, MaxIsoChildren) : InitFanOut(sm)

\* The outcome results holds for future i.
OutcomeFor(i) ==
    results[CHOOSE k \in 1..Len(collected) : collected[k] = i]

Rerun ==
    /\ pass = "baseline"
    /\ mpc = "done"
    /\ \E j \in Futures, f \in FailingResponses :
         /\ victim' = j
         /\ net' = [net EXCEPT ![j] = f]
    /\ baseline' = [i \in Futures |-> OutcomeFor(i)]
    /\ pass' = "faulted"
    /\ fstate' = [i \in Futures |-> "none"]
    /\ fresult' = [i \in Futures |-> NoOutcome]
    /\ requests' = [i \in Futures |-> <<>>]
    /\ finish_order' = <<>>
    /\ mpc' = "submit"
    /\ early' = {}
    /\ waiterq' = <<>>
    /\ yielded' = {}
    /\ collected' = <<>>
    /\ results' = <<>>
    /\ all_urls' = {}
    /\ all_dates' = <<>>
    /\ any_has_time_info' = FALSE
    /\ shown_global' = <<>>
    /\ shown_each' = <<>>
    /\ default_urls' = DefaultUrls
    /\ default_refresh' = NoRefresh
    /\ UNCHANGED <<sitemaps, fetchVars, indexVars, parseVars, datesVars>>

NextIso == Next \/ Rerun

SpecIsolation == InitIso /\ [][NextIso]_vars

\* ------------------------------------------- one fetch_and_parse_sitemap
\* The answers the network can give.  A gzip stream that does not
\* decompress leaves the compressed bytes, which are neither UTF-8 nor XML;
\* an empty body holds neither gzip magic bytes nor CDATA.
AllResponses ==
    {r \in [net : {"ok", "timeout"}, status : {200, 404},
            ctype : {"absent", "xml", "html"},
            clen : {NoHeader, NumHeader(2048), NumHeader(MaxDownload + 1), BadHeader},
            size : {0, 2048, MaxDownload, MaxDownload + 1},
            read : {"ok", "timeout"},
            gz : {"plain", "gzip_ok", "gzip_bad"},
            utf8 : BOOLEAN, cdata : BOOLEAN,
            doc : {LeafB, HtmlPage, Rejected}] :
       /\ r.gz = "gzip_bad" => ~r.utf8 /\ ~r.doc.wf /\ ~r.cdata
       /\ r.size = 0 => r.gz = "plain" /\ ~r.cdata}

InitFetch ==
    /\ pass = "only"
    /\ sitemaps = <<>> /\ net = <<>> /\ victim = 0 /\ baseline = <<>>
    /\ fstate = <<>> /\ fresult = <<>> /\ mpc = "idle"
    /\ requests = <<>> /\ finish_order = <<>>
    /\ early = {} /\ waiterq = <<>> /\ yielded = {} /\ collected = <<>>
    /\ results = <<>> /\ all_urls = {} /\ all_dates = <<>>
    /\ any_has_time_info = FALSE
    /\ shown_global = <<>> /\ shown_each = <<>> /\ default_urls = DefaultUrls
    /\ default_refresh = NoRefresh
    /\ IdleIndex
    /\ IdleParse
    /\ IdleDates
    /\ f_resp \in AllResponses
    /\ fs = FetchStart
    /\ f_pc = "fetching"
    /\ f_out = NoOutcome

\* Lines 316-317: the request and its status.
DoGet ==
    /\ f_pc = "fetching"
    /\ fs.pc = "get"
    /\ fs' = FetchGet(fs, f_resp)
    /\ UNCHANGED <<fanVars, indexVars, parseVars, datesVars, f_resp, f_pc, f_out>>

\* Lines 320-338: the headers.
DoHeaders ==
    /\ f_pc = "fetching"
    /\ fs.pc = "headers"
    /\ fs' = FetchHeaders(fs, f_resp)
    /\ UNCHANGED <<fanVars, indexVars, parseVars, datesVars, f_resp, f_pc, f_out>>

\* Lines 341-348: the download.
DoBody ==
    /\ f_pc = "fetching"
    /\ fs.pc = "body"
    /\ fs' = FetchBody(fs, f_resp)
    /\ UNCHANGED <<fanVars, indexVars, parseVars, datesVars, f_resp, f_pc, f_out>>

\* Lines 351-360: gzip.
DoGzip ==
    /\ f_pc = "fetching"
    /\ fs.pc = "gzip"
    /\ fs' = FetchGzip(fs, f_resp)
    /\ UNCHANGED <<fanVars, indexVars, parseVars, datesVars, f_resp, f_pc, f_out>>

\* Lines 363-376: decoding.
DoDecode ==
    /\ f_pc = "fetching"
    /\ fs.pc = "decode"
    /\ fs' = FetchDecode(fs, f_resp)
    /\ UNCHANGED <<fanVars, indexVars, parseVars, datesVars, f_resp, f_pc, f_out>>

\* fetch_xml has returned: lines 489-513 build the outcome.
DoOutcome ==
    /\ f_pc = "fetching"
    /\ fs.pc = "done"
    /\ f_out' = OutcomeOf("child.xml",
                          [some |-> fs.xml, empty |-> f_resp.size = 0,
                           messages |-> fs.ret],
                          f_resp.doc)
    /\ f_pc' = "returned"
    /\ UNCHANGED <<fanVars, indexVars, parseVars, datesVars, f_resp, fs>>

NextFetch == DoGet \/ DoHeaders \/ DoBody \/ DoGzip \/ DoDecode \/ DoOutcome

SpecFetch == InitFetch /\ [][NextFetch]_vars

\* -------------------------------------------------- parse_sitemap_index
NoDate == [some |-> FALSE]
SomeDate(d) == [some |-> TRUE, date |-> d]

\* The <sitemap> elements an index document can hold.
IndexElems ==
    [loc : {NoElem, Elem(<<"a.xml">>), Elem(<<"b.xml">>)},
     lastmod : {NoElem, Elem(<<"d1">>), Elem(<<"d2", "T", "h9", ":", "mm", "Z">>),
                Elem(<<"x">>)}]

InitIndex ==
    /\ pass = "only"
    /\ sitemaps = <<>> /\ net = <<>> /\ victim = 0 /\ baseline = <<>>
    /\ fstate = <<>> /\ fresult = <<>> /\ mpc = "idle"
    /\ requests = <<>> /\ finish_order = <<>>
    /\ early = {} /\ waiterq = <<>> /\ yielded = {} /\ collected = <<>>
    /\ results = <<>> /\ all_urls = {} /\ all_dates = <<>>
    /\ any_has_time_info = FALSE
    /\ shown_global = <<>> /\ shown_each = <<>> /\ default_urls = DefaultUrls
    /\ default_refresh = NoRefresh
    /\ IdleFetch
    /\ IdleParse
    /\ IdleDates
    /\ ix_elems \in SeqsUpTo(IndexElems, MaxSitemapElems)
    /\ ix_pos = 0
    /\ ix_pc = "loop"
    /\ sitemap_data = <<>>

\* parser.parse(last_mod.text) if last_mod else None: the value, or a raise.
IndexLastmod(e) ==
    IF ~e.lastmod.found THEN [raised |-> FALSE, value |-> NoDate]
    ELSE LET d == DateParse(e.lastmod.text)
         IN  IF d.ok
               THEN [raised |-> FALSE,
                     value |-> SomeDate([day |-> d.day, hour |-> d.hour,
                                         aware |-> d.aware, off |-> d.off])]
               ELSE [raised |-> TRUE, value |-> NoDate]

\* One iteration of the loop of lines 392-401.
IndexEntry ==
    /\ ix_pc = "loop"
    /\ ix_pos < Len(ix_elems)
    /\ LET e == ix_elems[ix_pos + 1]
           lm == IndexLastmod(e)
       IN  IF ~e.loc.found
             THEN /\ ix_pos' = ix_pos + 1
                  /\ UNCHANGED <<ix_pc, sitemap_data>>
           ELSE IF lm.raised
             THEN /\ ix_pc' = "raised"
                  /\ UNCHANGED <<ix_pos, sitemap_data>>
           ELSE /\ ix_pos' = ix_pos + 1
                /\ sitemap_data' =
                     Append(sitemap_data, [url |-> e.loc.text, lastmod |-> lm.value])
                /\ UNCHANGED ix_pc
    /\ UNCHANGED <<fanVars, fetchVars, parseVars, datesVars, ix_elems>>

\* Line 403
IndexReturn ==
    /\ ix_pc = "loop"
    /\ ix_pos = Len(ix_elems)
    /\ ix_pc' = "returned"
    /\ UNCHANGED <<fanVars, fetchVars, parseVars, datesVars, ix_elems, ix_pos, sitemap_data>>

NextIndex == IndexEntry \/ IndexReturn

SpecIndex == InitIndex /\ [][NextIndex]_vars

\* --------------------------------------------------- one parse_sitemap
\* No aggregation under way: the fan-out variables at rest.
IdleFanOut ==
    /\ pass = "only"
    /\ sitemaps = <<>> /\ net = <<>> /\ victim = 0 /\ baseline = <<>>
    /\ fstate = <<>> /\ fresult = <<>> /\ mpc = "idle"
    /\ requests = <<>> /\ finish_order = <<>>
    /\ early = {} /\ waiterq = <<>> /\ yielded = {} /\ collected = <<>>
    /\ results = <<>> /\ all_urls = {} /\ all_dates = <<>>
    /\ any_has_time_info = FALSE
    /\ shown_global = <<>> /\ shown_each = <<>> /\ default_urls = DefaultUrls
    /\ default_refresh = NoRefresh

\* The <url> elements a leaf document may hold: a <loc> that is absent,
\* blank, or one of two addresses (one of them also padded with blanks), a
\* <lastmod> that is absent, a day, a zoned date-time or junk, and other
\* child elements or none.
PaddedP1 == <<" ">> \o P1 \o <<" ">>
LocChoices == {NoElem, Elem(<<" ">>), Elem(P1), Elem(PaddedP1), Elem(P2)}
LastmodChoices ==
    {NoElem, Elem(<<"d1">>), Elem(<<"d2", "T", "h9", ":", "mm", "+2">>),
     Elem(<<"x">>)}
ChildrenChoices == {{}, {<<"", "priority">>, <<"image", "loc">>}}
UrlElems ==
    {Entry(l, m, c) : l \in LocChoices, m \in LastmodChoices,
                      c \in ChildrenChoices}

InitParse ==
    /\ IdleFanOut
    /\ IdleFetch
    /\ IdleIndex
    /\ IdleDates
    /\ p_entries \in SeqsUpTo(UrlElems, MaxEntries)
    /\ p_pos = 0
    /\ p_pc = "loop"
    /\ p_acc = ParseAcc0

\* One iteration of `for url in urls`.
ParseStep ==
    /\ p_pc = "loop"
    /\ p_pos < Len(p_entries)
    /\ p_acc' = ParseUrlEntry(p_acc, p_entries[p_pos + 1])
    /\ p_pos' = p_pos + 1
    /\ UNCHANGED <<fanVars, fetchVars, indexVars, datesVars, p_entries, p_pc>>

\* return unique_urls, last_mod_dates, dict(tags_info), has_time_info
ParseReturn ==
    /\ p_pc = "loop"
    /\ p_pos = Len(p_entries)
    /\ p_pc' = "returned"
    /\ UNCHANGED <<fanVars, fetchVars, indexVars, datesVars, p_entries, p_pos,
                   p_acc>>

NextParse == ParseStep \/ ParseReturn

SpecParse == InitParse /\ [][NextParse]_vars

\* --------------------------------------------------- one analyze_dates
\* Timestamps on both sides of each window's start, one in the future, in
\* UTC and in a zone two hours ahead; the clock reads day 400, 0h or 9h.
DateChoices ==
    {[day |-> dd, hour |-> hh, aware |-> TRUE, off |-> oo] :
        dd \in {35, 370, 393, 399, 401}, hh \in {0, 9}, oo \in {0, 2}}
NowChoices == {400 * 24, 400 * 24 + 9}

InitDates ==
    /\ IdleFanOut
    /\ IdleFetch
    /\ IdleIndex
    /\ IdleParse
    /\ d_dates \in SeqsUpTo(DateChoices, MaxDates)
    /\ d_now = 0
    /\ d_pos = 0
    /\ d_pc = "start"
    /\ stats = NoStats

\* if not dates: return {...}
AnalyzeEmpty ==
    /\ d_pc = "start"
    /\ d_dates = <<>>
    /\ stats' = NoStats
    /\ d_pc' = "returned"
    /\ UNCHANGED <<fanVars, fetchVars, indexVars, parseVars, d_dates, d_now,
                   d_pos>>

\* now = datetime.now(pytz.UTC), the four window starts, stats = {...}
AnalyzeEnter ==
    /\ d_pc = "start"
    /\ d_dates # <<>>
    /\ \E n \in NowChoices : d_now' = n
    /\ stats' = NoStats
    /\ d_pc' = "loop"
    /\ UNCHANGED <<fanVars, fetchVars, indexVars, parseVars, d_dates, d_pos>>

\* One iteration of `for date in dates`.
AnalyzeStep ==
    /\ d_pc = "loop"
    /\ d_pos < Len(d_dates)
    /\ stats' = AnalyzeDate(stats, d_dates[d_pos + 1], d_now)
    /\ d_pos' = d_pos + 1
    /\ UNCHANGED <<fanVars, fetchVars, indexVars, parseVars, d_dates, d_now,
                   d_pc>>

\* return stats
AnalyzeReturn ==
    /\ d_pc = "loop"
    /\ d_pos = Len(d_dates)
    /\ d_pc' = "returned"
    /\ UNCHANGED <<fanVars, fetchVars, indexVars, parseVars, d_dates, d_now,
                   d_pos, stats>>

NextDates == AnalyzeEmpty \/ AnalyzeEnter \/ AnalyzeStep \/ AnalyzeReturn

SpecDates == InitDates /\ [][NextDates]_vars

\* ================================================================ claims
AfterLoop == mpc \in {"display", "each", "done"}
Children == 1..Len(sitemaps)
Successes == {k \in 1..Len(results) : results[k].success}
Failures == {k \in 1..Len(results) : ~results[k].success}
Collected(i) == \E k \in 1..Len(collected) : collected[k] = i
Range(q) == {q[k] : k \in 1..Len(q)}
BagOfSeq(q) == [e \in Range(q) |-> Cardinality({k \in 1..Len(q) : q[k] = e})]
IsPrefix(p, q) == Len(p) <= Len(q) /\ SubSeq(q, 1, Len(p)) = p

\* C1: once the loop has ended, results holds exactly one outcome per child
\* of the list, duplicates included: failures + successes = children.
C1_OneOutcomePerChild ==
    AfterLoop =>
      /\ Cardinality(Failures) + Cardinality(Successes) = Len(sitemaps)
      /\ \A i \in Children :
           Cardinality({k \in 1..Len(collected) : collected[k] = i}) = 1

C1_Witness ==
    /\ mpc = "done"
    /\ \E i, j \in Children : i < j /\ sitemaps[i] = sitemaps[j]
    /\ Failures # {}
    /\ Successes # {}
    /\ Len(results) = Len(sitemaps)

\* C2: with the network failing one child of a list it served whole before,
\* the script does not abort, every child gets its outcome, the failed child's
\* is a failure and every other child's is the one of the baseline run.
C2_Isolation ==
    /\ mpc # "crashed"
    /\ (pass = "faulted" /\ AfterLoop) =>
         \A i \in Children :
           /\ Collected(i)
           /\ i = victim => ~OutcomeFor(i).success
           /\ i # victim => OutcomeFor(i) = baseline[i]

C2_Witness ==
    /\ pass = "faulted"
    /\ mpc = "done"
    /\ baseline[victim].success
    /\ ~OutcomeFor(victim).success
    /\ \E i \in Children : i # victim /\ OutcomeFor(i).success
                           /\ OutcomeFor(i).urls # {}

\* The aggregate the merge gives when the children complete in list order.
RECURSIVE MergeInOrder(_, _)
MergeInOrder(acc, i) ==
    IF i > Len(sitemaps) THEN acc
    ELSE MergeInOrder(Merge(acc, RunTask(i).value), i + 1)

Canonical(acc) ==
    [all_urls |-> acc.all_urls, all_dates |-> BagOfSeq(acc.all_dates),
     any_has_time_info |-> acc.any_has_time_info]

\* C3: whatever order the children complete and are collected in, the final
\* aggregate (URLs as a set, dates as a multiset, the flag) is the one that
\* completion in list order gives.
C3_OrderIndependent ==
    AfterLoop =>
      Canonical(Acc) =
        Canonical(MergeInOrder([all_urls |-> {}, all_dates |-> <<>>,
                                any_has_time_info |-> FALSE], 1))

C3_Witness ==
    /\ mpc = "done"
    /\ \E k \in 1..(Len(collected) - 1) : collected[k] > collected[k + 1]
    /\ \E k, l \in Successes :
         /\ results[k].has_time_info /\ ~results[l].has_time_info
         /\ results[k].dates # <<>> /\ results[l].dates # <<>>

\* C4: at the end all_urls is the union of urls and any_has_time_info the
\* disjunction of has_time_info over the successes of results, and every
\* child that failed has its failure in results.
C4_MergeOfSuccesses ==
    AfterLoop =>
      /\ all_urls = UNION {results[k].urls : k \in Successes}
      /\ any_has_time_info = (\E k \in Successes : results[k].has_time_info)
      /\ Len(results) = Len(sitemaps)
      /\ \A i \in Children :
           ~RunTask(i).value.success => Collected(i) /\ ~OutcomeFor(i).success

C4_Witness ==
    /\ mpc = "done"
    /\ sitemaps = <<"a.xml", "big.xml", "b.xml">>
    /\ Len(results) = 3
    /\ Cardinality(Failures) = 1
    /\ all_urls = {P1, P2}
    /\ any_has_time_info

\* C5 as stated: no result is merged while another child is still pending
\* or in flight.
C5_AllBeforeMerge ==
    Successes # {} => \A i \in Children : fstate[i] = "finished"

\* C5 amended: a child's result is merged only after that child has resolved
\* and after every child has been submitted.
C5_MergeAfterOwnResolve ==
    collected # <<>> =>
      /\ \A i \in Children : fstate[i] # "none"
      /\ \A k \in 1..Len(collected) :
           /\ fstate[collected[k]] = "finished"
           /\ results[k] = fresult[collected[k]].value

C5_Witness ==
    /\ Successes # {}
    /\ all_urls # {}
    /\ \E i \in Children : fstate[i] = "running"
    /\ \E i \in Children : fstate[i] = "pending"

\* C6: the global view, the per-sitemap view and the simulator's default are
\* produced only once every child has finished and has its outcome in
\* results, and the global view is given the final aggregate.
C6_BatchJoin ==
    (shown_global # <<>> \/ shown_each # <<>> \/ default_urls # DefaultUrls
       \/ mpc \in {"display", "each", "done"}) =>
      /\ \A i \in Children : fstate[i] = "finished" /\ Collected(i)
      /\ shown_global # <<>> => shown_global[1] = Acc

C6_Witness ==
    /\ mpc = "done"
    /\ Len(sitemaps) >= 2
    /\ Len(shown_each) = Len(sitemaps)
    /\ shown_global # <<>>
    /\ default_urls = 2

\* C7: at most 5 child fetches are in flight at any moment.
C7_AtMostFiveInFlight ==
    Cardinality({i \in Children : fstate[i] = "running"}) <= 5

C7_Witness ==
    /\ Cardinality({i \in Children : fstate[i] = "running"}) = 5
    /\ \E i \in Children : fstate[i] = "pending"

\* The fetch of child i returned a non-empty text.
Fetched(i) == FetchXml(net[i]).some /\ ~FetchXml(net[i]).empty

\* C8 as stated: a child whose fetch succeeds with a text that is not
\* well-formed XML gets a failure, never a success.
C8_MalformedIsFailure ==
    \A k \in 1..Len(collected) :
      (Fetched(collected[k]) /\ ~net[collected[k]].doc.wf) => ~results[k].success

\* C9 as stated: the failure of a child whose fetch failed carries every
\* message the fetch had gathered before it failed, and the error.
C9_FailureKeepsDiagnostics ==
    (f_pc = "returned" /\ ~fs.xml) =>
      /\ ~f_out.value.success
      /\ IsPrefix(fs.messages, f_out.value.messages)
      /\ \E k \in 1..Len(f_out.value.messages) :
           f_out.value.messages[k].sev = "error"

\* What the claim has parse_sitemap_index return: an entry per element with
\* a location, its lastmod omitted when it does not parse.
RECURSIVE TolerantIndex(_)
TolerantIndex(es) ==
    IF es = <<>> THEN <<>>
    ELSE LET e == Head(es)
             d == IF e.lastmod.found THEN DateParse(e.lastmod.text) ELSE ParseFail
         IN  IF ~e.loc.found THEN TolerantIndex(Tail(es))
             ELSE <<[url |-> e.loc.text,
                     lastmod |-> IF d.ok
                                   THEN SomeDate([day |-> d.day, hour |-> d.hour,
                                                  aware |-> d.aware, off |-> d.off])
                                   ELSE NoDate]>> \o TolerantIndex(Tail(es))

\* C10 as stated: parse_sitemap_index never fails for the document; an
\* element with a location and an unparseable lastmod is returned without
\* lastmod, an element without a location is skipped.
C10_IndexTolerant ==
    /\ ix_pc # "raised"
    /\ ix_pc = "returned" => sitemap_data = TolerantIndex(ix_elems)

\* The <url> elements the loop of parse_sitemap has dealt with.
Parsed == SubSeq(p_entries, 1, p_pos)

BlankLoc(e) == e.loc.found /\ Strip(e.loc.text) = <<>>
HasUrl(e) == ~BlankLoc(e)

\* C11: an entry whose location is empty or whitespace-only is skipped
\* entirely: the accumulated urls, dates, time-of-day flag and tag inventory
\* are those of the document without such entries.
C11_BlankLocSkipped ==
    p_acc = ParseEntries(ParseAcc0, SelectSeq(Parsed, HasUrl))

\* C12: the size of the urls set is the number of distinct non-empty trimmed
\* location values among the entries dealt with.
TrimmedLocs(es) ==
    {Strip(es[k].loc.text) : k \in {j \in 1..Len(es) : es[j].loc.found}} \ {<<>>}

C12_DistinctTrimmedLocs ==
    Cardinality(p_acc.urls) = Cardinality(TrimmedLocs(Parsed))

\* Two entries name the same location, one of them padded with blanks, next
\* to some other entry: one URL is counted for the two.
C12_Witness ==
    /\ p_pc = "returned"
    /\ \E j, k \in 1..Len(p_entries) :
          /\ p_entries[j].loc = Elem(P1)
          /\ p_entries[k].loc = Elem(PaddedP1)
    /\ p_acc.urls = {P1}

\* C14: a last-modified value that fails to parse costs the entry its date
\* alone: urls and the tag inventory are those of the same document with the
\* unparseable <lastmod> elements absent.
BadLastmod(e) == e.lastmod.found /\ ~DateParse(Strip(e.lastmod.text)).ok

DropBadLastmod(es) ==
    [k \in 1..Len(es) |->
        IF BadLastmod(es[k]) THEN [es[k] EXCEPT !.lastmod = NoElem] ELSE es[k]]

C14_BadDateKeepsEntry ==
    LET want == ParseEntries(ParseAcc0, DropBadLastmod(Parsed))
    IN  /\ p_acc.urls = want.urls
        /\ p_acc.dates = want.dates
        /\ p_acc.tags = want.tags

\* C13: whatever the timestamps and the clock, the counts grow with the
\* window, count(24h) <= count(week) <= count(month) <= count(year), each
\* count being the number of dates dealt with that lie at or after its
\* window's start; an empty collection gives four zeros.
Counted(k) ==
    Cardinality({j \in 1..d_pos : Instant(d_dates[j]) >= d_now - WindowDays(k) * 24})

C13_BucketsMonotone ==
    /\ stats["24h"] <= stats["week"]
    /\ stats["week"] <= stats["month"]
    /\ stats["month"] <= stats["year"]
    /\ d_pc \in {"loop", "returned"} /\ d_dates # <<>> =>
          \A k \in StatKeys : stats[k] = Counted(k)
    /\ d_pc = "returned" /\ d_dates = <<>> => stats = NoStats

\* A zoned date in the future is counted in all four windows, a date older
\* than a day in the wider ones only.
C13_Witness ==
    /\ d_pc = "returned"
    /\ \E j \in 1..Len(d_dates) :
          Instant(d_dates[j]) > d_now /\ d_dates[j].off # 0
    /\ stats["24h"] = 1
    /\ stats["year"] = 2

\* C15: results and the accumulators all_urls, all_dates, any_has_time_info
\* are written by the collecting loop alone: a step that changes one of them
\* is an iteration of that loop, taking one more future from as_completed,
\* and no step in which a worker task starts or ends changes any of them.
C15_SingleWriter ==
    [][(results' # results \/ Acc' # Acc) =>
          /\ mpc = "collect"
          /\ fstate' = fstate /\ fresult' = fresult
          /\ \E i \in Futures \ yielded : yielded' = yielded \cup {i}]_vars

\* The loop has merged a result while a worker is busy with another child.
C15_Witness ==
    /\ mpc = "collect"
    /\ all_urls # {} /\ results # <<>>
    /\ InState("running") # {}

\* The loop takes future i from as_completed in this step.
Takes(i) == i \notin yielded /\ yielded' = yielded \cup {i}

\* The per-sitemap display shows the outcomes in the order of results.
DisplayFollowsResults ==
    /\ Len(shown_each) <= Len(results)
    /\ \A k \in 1..Len(shown_each) : shown_each[k] = Title(results[k])

\* C16 (as stated): results is in completion order: the future the loop takes
\* is always the one whose task ended first among those not taken yet, and
\* the per-sitemap display follows results.
C16_CompletionOrder ==
    /\ []DisplayFollowsResults
    /\ [][\A i \in Futures : Takes(i) => i = Head(finish_order)]_vars

\* C16 (amended): the futures whose task had ended when as_completed was
\* called are taken first, in any order; each of the others is taken in
\* completion order, that is when it is the earliest ended of those not
\* taken yet; results lists the outcomes in the order taken and the
\* per-sitemap display follows results.
C16_EarlyFirstThenCompletionOrder ==
    /\ []DisplayFollowsResults
    /\ [](mpc # "crashed" => results = [k \in 1..Len(collected) |->
                                            fresult[collected[k]].value])
    /\ [][\A i \in Futures : Takes(i) =>
              IF early \ yielded # {} THEN i \in early
              ELSE i = Head(finish_order)]_vars

\* Three children shown: the second listed was taken first, two had ended
\* when as_completed was called and the last taken ended after the call.
C16_Witness ==
    /\ mpc = "done"
    /\ Len(shown_each) = 3
    /\ collected[1] = 2
    /\ Cardinality(early) = 2
    /\ collected[3] \notin early

\* The documents the task of future i has asked for.
DocRequests(i) == SelectSeq(requests[i], LAMBDA q : q.kind = "document")

\* C17: one attempt per child and one level of indirection: there is one
\* future per listed child and never another; a task asks for one document,
\* the listed URL of its child, once, failed or not; a child that is itself
\* a sitemap index is no exception, and no child gets more than one outcome.
C17_OneAttemptOneLevel ==
    /\ Futures = 1..Len(sitemaps)
    /\ \A i \in Futures :
          /\ Len(DocRequests(i)) = IF fstate[i] = "finished" THEN 1 ELSE 0
          /\ \A k \in 1..Len(DocRequests(i)) : DocRequests(i)[k].url = sitemaps[i]
          /\ Cardinality({k \in 1..Len(collected) : collected[k] = i}) <= 1
    /\ AfterLoop => Len(results) = Len(sitemaps)

\* The aggregation is over: a child that is a sitemap index naming another
\* document got one outcome after one request, and so did a child answered
\* with status 404.
C17_Witness ==
    /\ mpc = "done"
    /\ \E i, j \in Futures :
          /\ net[i].doc.kind = "sitemapindex" /\ net[i].doc.entries # <<>>
          /\ Len(DocRequests(i)) = 1
          /\ net[j].status = 404
          /\ ~fresult[j].value.success
          /\ Len(DocRequests(j)) = 1

\* The dates, and the URLs, of the successes among the first n outcomes,
\* each counted once per outcome.
RECURSIVE SumDates(_)
SumDates(n) ==
    IF n = 0 THEN 0
    ELSE SumDates(n - 1) + IF results[n].success THEN Len(results[n].dates) ELSE 0

RECURSIVE SumUrls(_)
SumUrls(n) ==
    IF n = 0 THEN 0
    ELSE SumUrls(n - 1)
           + IF results[n].success THEN Cardinality(results[n].urls) ELSE 0

\* C18: after every iteration of the collecting loop, and at the end,
\* all_dates is as long as the dates of the successes collected so far taken
\* together, and all_urls holds at most as many URLs as they list together:
\* dates are not deduplicated, URLs are.
C18_DatesPerChildUrlsOnce ==
    /\ Len(all_dates) = SumDates(Len(results))
    /\ Cardinality(all_urls) <= SumUrls(Len(results))

\* The index lists one child twice: its URL counts once, its date twice.
C18_Witness ==
    /\ mpc = "done"
    /\ \E i, j \in Children : i # j /\ sitemaps[i] = sitemaps[j]
    /\ Cardinality(Successes) = 2
    /\ Cardinality(all_urls) = 1
    /\ SumUrls(Len(results)) = 2
    /\ Len(all_dates) = 2
    /\ all_dates[1] = all_dates[2]

\* C19: with every started fetch returning and the threads scheduled
\* fairly, the aggregation over a list longer than the pool ends: every child
\* is started and resolved, its outcome collected, and the script goes on
\* past the with block to its end.
AllResolved ==
    /\ \A i \in Futures : fstate[i] = "finished" /\ Collected(i)
    /\ Len(results) = Len(sitemaps)

C19_EventuallyAllResolved == <>(mpc = "done" /\ AllResolved)

\* More children than pool threads, and the script has reached its end.
C19_Witness ==
    /\ Len(sitemaps) > max_workers
    /\ mpc = "done"
    /\ AllResolved

====
